---- MODULE Spec2Model ----
(***************************************************************************)
(* Model of the AI extraction core of logistics-ai:                        *)
(*   CircuitBreaker, AIProviderManager (services/ai_provider_manager.py)   *)
(*   AIDocumentParser                  (services/ai_service.py)            *)
(*   ExtractionResult                  (schemas/ai.py)                     *)
(*                                                                         *)
(* The code runs on asyncio: a coroutine runs without interruption from    *)
(* one real suspension point (an awaited network call) to the next, so     *)
(* each action below is the code between two suspension points.            *)
(***************************************************************************)
EXTENDS Integers, Sequences, FiniteSets, TLC

VARIABLES now, circuit_breakers, calls, consec, last,
          providers, metrics, tasks, parses, scoring

\* what the direct callers of a breaker add to the state, and the latest
\* call of ConfidenceScorer.score_extraction
harness == <<calls, consec, last, scoring>>

\* the manager's providers and metrics, and the parses in progress
manager == <<providers, metrics, tasks, parses>>

vars == <<now, circuit_breakers, calls, consec, last,
          providers, metrics, tasks, parses, scoring>>

----------------------------------------------------------------------------
(* Bounds of the model *)

\* the clock stops advancing here
MaxTime == 125

\* number of coroutines calling one breaker directly
NumCallers == 2

\* number of documents parsed concurrently by one AIDocumentParser
NumDocs == 2

\* number of parse_document calls in one run
MaxParses == 2

Docs == 1..NumDocs

\* the amounts of time (seconds) that may pass between two steps
TickSteps == {29, 30, 31}

\* the amounts of time (seconds) that may pass between two steps of a parse
Latencies == {100}

Callers == 1..NumCallers

----------------------------------------------------------------------------
(* CircuitBreaker *)

CLOSED == "closed"

OPEN == "open"

HALF_OPEN == "half_open"

\* self.last_failure_time = None
None == -1

failure_threshold == 5

recovery_timeout == 60

Providers == {"openai", "claude"}

\* the breaker the direct callers of SpecCB share
CBTarget == "openai"

\* CircuitBreaker.__init__
NewCircuitBreaker ==
  [state |-> CLOSED, failure_count |-> 0, last_failure_time |-> None]

\* mutant: the recovery period is counted twice
RecoveryElapsed_doubled(cb, t) ==
  t - cb.last_failure_time > 2 * recovery_timeout

\* time.time() - self.last_failure_time > self.recovery_timeout
RecoveryElapsed(cb, t) ==
  t - cb.last_failure_time > recovery_timeout

\* mutant: an open breaker lets every call through as a trial
CBEnter_noReject(cb, t) ==
  IF cb.state = OPEN
  THEN [cb |-> [cb EXCEPT !.state = HALF_OPEN], raised |-> "none"]
  ELSE [cb |-> cb, raised |-> "none"]

\* The part of CircuitBreaker.call before the wrapped function is awaited.
\* raised = "none": func is invoked next, with the breaker as in cb.
\* Subtracting None from a float raises TypeError.
CBEnter(cb, t) ==
  IF cb.state = OPEN
  THEN IF cb.last_failure_time = None
       THEN [cb |-> cb, raised |-> "TypeError"]
       ELSE IF RecoveryElapsed(cb, t)
            THEN [cb |-> [cb EXCEPT !.state = HALF_OPEN], raised |-> "none"]
            ELSE [cb |-> cb, raised |-> "CircuitBreakerOpenException"]
  ELSE [cb |-> cb, raised |-> "none"]

\* mutant: the trial's success closes the breaker but keeps the count
CBOnSuccess_noReset(cb) ==
  IF cb.state = HALF_OPEN
  THEN [cb EXCEPT !.state = CLOSED]
  ELSE cb

\* The part of CircuitBreaker.call after func returned a result.
CBOnSuccess(cb) ==
  IF cb.state = HALF_OPEN
  THEN [cb EXCEPT !.state = CLOSED, !.failure_count = 0]
  ELSE cb

\* mutant: > instead of >=
ThresholdReached_strict(n) ==
  n > failure_threshold

\* self.failure_count >= self.failure_threshold
ThresholdReached(n) ==
  n >= failure_threshold

\* mutant: a failed trial is counted but the timer is not restarted
CBOnFailure_staleTimestamp(cb, t) ==
  LET n == cb.failure_count + 1
  IN  [state |-> IF n >= failure_threshold THEN OPEN ELSE cb.state,
       failure_count |-> n,
       last_failure_time |->
         IF cb.state = HALF_OPEN THEN cb.last_failure_time ELSE t]

\* The except-Exception block of CircuitBreaker.call.
CBOnFailure(cb, t) ==
  LET n == cb.failure_count + 1
  IN  [state |-> IF ThresholdReached(n) THEN OPEN ELSE cb.state,
       failure_count |-> n,
       last_failure_time |-> t]

----------------------------------------------------------------------------
(* ExtractionResult (schemas/ai.py) and what a provider adapter returns *)

\* AIDocumentParser.critical_fields, in list order
critical_fields ==
  <<"client_company_name", "client_vat_number", "client_offered_price",
    "pickup_address", "delivery_address">>

CriticalSet == {critical_fields[i] : i \in DOMAIN critical_fields}

RECURSIVE SumOver(_, _)
SumOver(f, S) ==
  IF S = {} THEN 0
  ELSE LET x == CHOOSE y \in S : TRUE IN f[x] + SumOver(f, S \ {x})

\* Object attributes are record fields: the dataclass declares
\* extracted_data, confidence_scores, provider_used, processing_time;
\* an attribute assigned later (result.provider = ...) is added.
HasAttr(obj, a) == a \in DOMAIN obj

SetAttr(obj, a, v) ==
  [x \in DOMAIN obj \cup {a} |-> IF x = a THEN v ELSE obj[x]]

\* values of the open-ended extracted_data mapping
Str(chars) == [kind |-> "str", chars |-> chars, cents |-> 0]

Num(cents) == [kind |-> "num", chars |-> <<>>, cents |-> cents]

\* ExtractionResult(extracted_data=..., confidence_scores=..., ...)
\* confidences are held in hundredths, prices in cents
ExtractionResult(data, conf, used, ptime) ==
  [extracted_data |-> data, confidence_scores |-> conf,
   provider_used |-> used, processing_time |-> ptime]

\* ExtractionResult.average_confidence < bound (bound in hundredths):
\* sum / len < bound, and 0.0 when there are no scores
AverageBelow(result, bound) ==
  LET cs == result.confidence_scores
  IN  IF DOMAIN cs = {} THEN 0 < bound
      ELSE SumOver(cs, DOMAIN cs) < bound * Cardinality(DOMAIN cs)

\* Fixed point for the float metrics: one unit is 10^-6
Unit == 1000000

\* ExtractionResult.average_confidence, in units
AverageConfidence(result) ==
  LET cs == result.confidence_scores
  IN  IF DOMAIN cs = {} THEN 0
      ELSE (SumOver(cs, DOMAIN cs) * (Unit \div 100)) \div Cardinality(DOMAIN cs)

GoodData ==
  [f \in CriticalSet |->
     CASE f = "client_offered_price" -> Num(150000)
       [] f = "client_vat_number" -> Str(<<"R", "O", "1", "2", "3", "4">>)
       [] OTHER -> Str(<<"a", "b", "c">>)]

\* What the backend of a provider may answer: every critical field at 0.95
\* with price 1500 and a well-formed VAT number; the same with one critical
\* field at 0.84.
AdapterAnswers ==
  {[data |-> GoodData, conf |-> [f \in CriticalSet |-> 95]],
   [data |-> GoodData,
    conf |-> [f \in CriticalSet |-> IF f = "pickup_address" THEN 84 ELSE 95]]}

\* provider_used as the adapters fill it in
ProviderUsed(p) == IF p = "openai" THEN "openai_gpt4v" ELSE "claude_sonnet"

----------------------------------------------------------------------------
(* AIProviderManager *)

\* self.providers is a dict: iteration follows insertion order
ProviderOrder == <<"openai", "claude">>

max_retries == 3

\* ProviderMetrics as _initialize_providers creates them (in units; the
\* write-only stamps last_success and last_failure are left out)
InitialMetrics(p) ==
  IF p = "openai"
  THEN [success_rate |-> Unit, avg_response_time |-> 30 * Unit,
        avg_quality_score |-> 900000, cost_per_request |-> 80000,
        total_requests |-> 0]
  ELSE [success_rate |-> Unit, avg_response_time |-> 25 * Unit,
        avg_quality_score |-> 850000, cost_per_request |-> 60000,
        total_requests |-> 0]

\* (1 - alpha) * old + alpha * x with alpha = 0.1, rounded down to a unit
Ema(old, x) == (9 * old + x) \div 10

\* mutant: the update writes total_requests back as it found it
UpdateMetrics_noCount(m, success, response_time, quality_score) ==
  [m EXCEPT
     !.success_rate = Ema(@, IF success THEN Unit ELSE 0),
     !.avg_response_time = Ema(@, response_time * Unit),
     !.avg_quality_score =
        IF success /\ quality_score > 0 THEN Ema(@, quality_score) ELSE @]

\* AIProviderManager._update_metrics; response_time in seconds,
\* quality_score in units
UpdateMetrics(m, success, response_time, quality_score) ==
  [m EXCEPT
     !.total_requests = @ + 1,
     !.success_rate = Ema(@, IF success THEN Unit ELSE 0),
     !.avg_response_time = Ema(@, response_time * Unit),
     !.avg_quality_score =
        IF success /\ quality_score > 0 THEN Ema(@, quality_score) ELSE @]

\* metrics.success_rate < 0.5
LowSuccessRate(m) == 2 * m.success_rate < Unit

\* mutant: the breaker's state is not looked at
IsProviderHealthy_noBreaker(cbs, ms, p) ==
  IF LowSuccessRate(ms[p]) THEN FALSE
  ELSE TRUE

\* mutant: the success rate is not looked at
IsProviderHealthy_noRate(cbs, ms, p) ==
  IF cbs[p].state = OPEN THEN FALSE
  ELSE TRUE

\* mutant: every provider passes the health test
IsProviderHealthy_always(cbs, ms, p) ==
  TRUE

\* AIProviderManager._is_provider_healthy
IsProviderHealthy(cbs, ms, p) ==
  IF cbs[p].state = OPEN THEN FALSE
  ELSE IF LowSuccessRate(ms[p]) THEN FALSE
  ELSE TRUE

Max0(x) == IF x > 0 THEN x ELSE 0

\* composite_score of _select_balanced_provider, times 1200 (so that the
\* division by 120 is exact): 0.3 q + 0.2 speed + 0.2 cost + 0.3 reliability
CompositeScore(m) ==
  LET speed120 == Max0(120 * Unit - m.avg_response_time)
      cost120 == 120 * Max0(Unit - 5 * m.cost_per_request)
  IN  360 * m.avg_quality_score + 2 * speed120 + 2 * cost120
        + 360 * m.success_rate

\* The first element of seq with the largest key: Python's max(seq, key=),
\* and the loop of _select_balanced_provider with its strict >
RECURSIVE FirstMax(_, _, _)

\* mutant: of several providers with the largest key the last one wins
FirstMax_last(seq, key, i) ==
  IF i = Len(seq) THEN seq[i]
  ELSE LET rest == FirstMax(seq, key, i + 1)
       IN  IF key[seq[i]] > key[rest] THEN seq[i] ELSE rest

FirstMax(seq, key, i) ==
  IF i = Len(seq) THEN seq[i]
  ELSE LET rest == FirstMax(seq, key, i + 1)
       IN  IF key[seq[i]] >= key[rest] THEN seq[i] ELSE rest

SeqFilter(seq, S) == SelectSeq(seq, LAMBDA x : x \in S)

\* mutant: the exclusion string is not looked at
Excluded_none(exclude) ==
  {}

\* exclude_provider.split(",") as a set (lines 595-597)
Excluded(exclude) ==
  {exclude[i] : i \in DOMAIN exclude}

\* AIProviderManager._select_provider; exclude is the comma-separated
\* exclude_provider string as a sequence of names (<<>> for None)
SelectProvider(configured, cbs, ms, priority, exclude) ==
  LET excluded == Excluded(exclude)
      healthy_providers ==
        SeqFilter(ProviderOrder,
                  {p \in configured :
                     p \notin excluded /\ IsProviderHealthy(cbs, ms, p)})
  IN  IF healthy_providers = <<>> THEN "NoHealthyProvidersException"
      ELSE CASE priority = "cost" ->
                  FirstMax(healthy_providers,
                           [p \in Providers |-> 0 - ms[p].cost_per_request], 1)
             [] priority = "speed" ->
                  FirstMax(healthy_providers,
                           [p \in Providers |-> 0 - ms[p].avg_response_time], 1)
             [] priority = "quality" ->
                  FirstMax(healthy_providers,
                           [p \in Providers |-> ms[p].avg_quality_score], 1)
             [] OTHER ->
                  FirstMax(healthy_providers,
                           [p \in Providers |-> CompositeScore(ms[p])], 1)

\* local variables of one AIProviderManager.parse_document call
Unbound == "unbound"

\* exclude_arg, called and selected_ok are not variables of the code: they
\* record the exclude_provider argument, the providers whose adapter this
\* call has invoked, and what the health test read when the provider of
\* the call in flight was selected.
NewFrame(priority, exclude) ==
  [priority |-> priority, exclude_provider |-> exclude, attempts |-> 0,
   last_exception |-> "none", provider_name |-> Unbound, start_time |-> 0,
   exclude_arg |-> exclude, called |-> <<>>, selected_ok |-> TRUE]

\* mutant: the failed provider is not excluded from the next attempt
ExcludeFailed_keep(exclude, p) ==
  exclude

\* lines 583-586: the failed provider joins the exclusion string
ExcludeFailed(exclude, p) ==
  Append(exclude, p)

\* the breaker let the call through (line 67): func is invoked on the
\* provider selected from breakers cbs and metrics ms
Admitted(f, cbs, ms) ==
  [f EXCEPT !.called = Append(@, f.provider_name),
            !.selected_ok = /\ cbs[f.provider_name].state # OPEN
                            /\ 2 * ms[f.provider_name].success_rate >= Unit]

\* AIProviderManager.parse_document from the head of its while loop up to
\* the next suspension (func awaited inside the breaker) or to its exit by
\* an exception.  st = [cbs, ms, f]; the result adds status and raised.
RECURSIVE ManagerLoop(_, _, _)

\* The except block of the loop (lines 573-586), then the loop again.
\* When the selection itself raised in the first pass, provider_name was
\* never assigned and reading it raises UnboundLocalError.
ManagerExcept(configured, st, e, t) ==
  LET f2 == [st.f EXCEPT !.attempts = @ + 1, !.last_exception = e]
  IN  IF f2.provider_name = Unbound
      THEN [cbs |-> st.cbs, ms |-> st.ms, f |-> f2, status |-> "raised",
            raised |-> "UnboundLocalError"]
      ELSE LET p == f2.provider_name
               ms2 == [st.ms EXCEPT
                         ![p] = UpdateMetrics(@, FALSE, t - f2.start_time, 0)]
               f3 == [f2 EXCEPT !.exclude_provider = ExcludeFailed(@, p)]
           IN  ManagerLoop(configured, [cbs |-> st.cbs, ms |-> ms2, f |-> f3], t)

ManagerLoop(configured, st, t) ==
  IF st.f.attempts >= max_retries
  THEN [cbs |-> st.cbs, ms |-> st.ms, f |-> st.f, status |-> "raised",
        raised |-> "AllProvidersFailedException"]
  ELSE
    LET sel == SelectProvider(configured, st.cbs, st.ms, st.f.priority,
                              st.f.exclude_provider)
        selected == sel \in Providers
        \* lines 553-560: provider_name and start_time are bound only when
        \* the selection returned
        f1 == IF selected
              THEN [st.f EXCEPT !.provider_name = sel, !.start_time = t]
              ELSE st.f
        r == IF selected THEN CBEnter(st.cbs[sel], t)
             ELSE [cb |-> NewCircuitBreaker, raised |-> sel]
        cbs1 == IF selected THEN [st.cbs EXCEPT ![sel] = r.cb] ELSE st.cbs
    IN  IF r.raised = "none"
        THEN [cbs |-> cbs1, ms |-> st.ms, f |-> Admitted(f1, st.cbs, st.ms),
              status |-> "suspended", raised |-> "none"]
        ELSE ManagerExcept(configured, [cbs |-> cbs1, ms |-> st.ms, f |-> f1],
                           r.raised, t)

----------------------------------------------------------------------------
(* AIDocumentParser (services/ai_service.py) *)

Returned(v) == [raised |-> "none", value |-> v]

Raised(e) == [raised |-> e, value |-> FALSE]

\* dict.get(field, 0.0) on confidence_scores
ConfGet(result, field) ==
  IF field \in DOMAIN result.confidence_scores
  THEN result.confidence_scores[field] ELSE 0

\* dict.get(field) is falsy: absent, None, "" or 0
Falsy(data, field) ==
  \/ field \notin DOMAIN data
  \/ data[field].kind = "none"
  \/ data[field].kind = "str" /\ data[field].chars = <<>>
  \/ data[field].kind = "num" /\ data[field].cents = 0

Digits == {"0", "1", "2", "3", "4", "5", "6", "7", "8", "9"}

\* AIDocumentParser._validate_romanian_vat_format: 2 to 10 digits remain
\* after everything that is not a digit is removed
ValidateRomanianVatFormat(vat) ==
  LET clean_vat == SelectSeq(vat.chars, LAMBDA ch : ch \in Digits)
  IN  2 <= Len(clean_vat) /\ Len(clean_vat) <= 10

\* body of AIDocumentParser._detect_data_anomalies once data is read
AnomaliesIn(data) ==
  LET price == IF "client_offered_price" \in DOMAIN data
               THEN data["client_offered_price"] ELSE Num(0)
      missing_criticals == Cardinality({f \in CriticalSet : Falsy(data, f)})
  IN  \/ price.kind = "num" /\ (price.cents < 10000 \/ price.cents > 5000000)
      \/ missing_criticals >= 2
      \/ /\ ~Falsy(data, "client_vat_number")
         /\ ~ValidateRomanianVatFormat(data["client_vat_number"])

\* AIDocumentParser._detect_data_anomalies: line 202 reads result.data
DetectDataAnomalies(result) ==
  IF ~HasAttr(result, "data") THEN Raised("AttributeError")
  ELSE Returned(AnomaliesIn(result.data))

\* self.confidence_threshold, in hundredths
confidence_threshold == 85

\* AIDocumentParser._needs_secondary_validation
NeedsSecondaryValidation(result) ==
  IF \E f \in CriticalSet : ConfGet(result, f) < confidence_threshold
  THEN Returned(TRUE)
  ELSE IF AverageBelow(result, 80) THEN Returned(TRUE)
  ELSE DetectDataAnomalies(result)

\* AIDocumentParser._merge_extraction_results: line 244 reads primary.data
MergeExtractionResults(primary, secondary) ==
  IF ~HasAttr(primary, "data") \/ ~HasAttr(secondary, "data")
  THEN Raised("AttributeError")
  ELSE
    LET all_fields == DOMAIN primary.data \cup DOMAIN secondary.data
        keep(f) == ConfGet(primary, f) >= ConfGet(secondary, f)
        get(d, f) == IF f \in DOMAIN d THEN d[f]
                     ELSE [kind |-> "none", chars |-> <<>>, cents |-> 0]
    IN  Returned(ExtractionResult(
          [f \in all_fields |-> IF keep(f) THEN get(primary.data, f)
                                ELSE get(secondary.data, f)],
          [f \in all_fields |-> IF keep(f) THEN ConfGet(primary, f)
                                ELSE ConfGet(secondary, f)],
          <<primary.provider_used, secondary.provider_used>>,
          primary.processing_time + secondary.processing_time))

\* AIDocumentParser._post_process_result: line 277 reads result.data, and
\* line 280 calls confidence_scorer.calculate_confidence_scores, which
\* ConfidenceScorer (confidence_scorer.py:71-435) does not define; either
\* raises AttributeError before a DocumentParsingResult is built.
PostProcessResult(result) ==
  IF ~HasAttr(result, "data") THEN Raised("AttributeError")
  ELSE Raised("AttributeError")

NoData == <<>>

\* mutant: the error result does not ask for a review
CreateErrorResult_noReview(error_message) ==
  [kind |-> "result", extracted_data |-> NoData, provider_used |-> "none",
   validation_errors |-> <<[text |-> "Parsing failed", error |-> error_message]>>,
   requires_manual_review |-> FALSE]

\* AIDocumentParser._create_error_result
CreateErrorResult(error_message) ==
  [kind |-> "result", extracted_data |-> NoData, provider_used |-> "none",
   validation_errors |-> <<[text |-> "Parsing failed", error |-> error_message]>>,
   requires_manual_review |-> TRUE]

\* an exception that leaves parse_document, or its cancellation
Escaped(kind, e) ==
  [kind |-> kind, extracted_data |-> NoData, provider_used |-> "none",
   validation_errors |-> <<[text |-> "escaped", error |-> e]>>,
   requires_manual_review |-> FALSE]

NoOutcome == Escaped("none", "none")

\* mutant: the handler catches only the errors spec'd to end the happy path
ParseDocumentExcept_narrow(e) ==
  IF e \in {"AllProvidersFailedException", "ValueError"}
  THEN CreateErrorResult(e)
  ELSE Escaped("raised", e)

\* the except-Exception block of AIDocumentParser.parse_document
ParseDocumentExcept(e) ==
  CreateErrorResult(e)

NoResult == ExtractionResult(NoData, NoData, "none", 0)

\* primary_result, secondary_result and final_result are the locals of
\* parse_document and _validate_and_enhance.  manager_raised and trace are
\* not variables of the code: the exception the latest
\* provider_manager.parse_document call left with, and the steps of
\* parse_document that have started, in order.
IdleTask ==
  [pc |-> "idle", f |-> NewFrame("balanced", <<>>),
   primary_result |-> NoResult, secondary_result |-> NoResult,
   final_result |-> NoResult, outcome |-> NoOutcome,
   error |-> "none", adapter_calls |-> 0, open_at_start |-> FALSE,
   manager_raised |-> "none", trace |-> <<>>]

\* a step of AIDocumentParser.parse_document starts
Step(task, name) == [task EXCEPT !.trace = Append(@, name)]

\* parse_document returns what _post_process_result built, or what its
\* except block builds from the exception
Finish(task, r) ==
  IF r.raised = "none"
  THEN [task EXCEPT !.pc = "done", !.outcome = r.value]
  ELSE [task EXCEPT !.pc = "done", !.outcome = ParseDocumentExcept(r.raised),
                    !.error = r.raised]

\* step 4 of parse_document, then its return
PostProcess(task, result) ==
  Finish(Step([task EXCEPT !.final_result = result], "postprocess"),
         PostProcessResult(result))

\* A manager call made by the parser has run up to its suspension or exit
Suspend(task, pc, m) ==
  [task EXCEPT !.pc = pc, !.f = m.f, !.adapter_calls = @ + 1]

\* The manager call m made for step pc is suspended in an adapter, or has
\* raised: out of _primary_extraction the exception reaches the except
\* block of parse_document; in _validate_and_enhance the except block
\* (lines 173-175) returns the primary result to step 4.
ManagerExit(task, pc, m) ==
  [cbs |-> m.cbs, ms |-> m.ms,
   task |-> IF m.status = "suspended" THEN Suspend(task, pc, m)
            ELSE IF pc = "primary"
                 THEN Finish([task EXCEPT !.f = m.f,
                                          !.manager_raised = m.raised],
                             Raised(m.raised))
                 ELSE PostProcess([task EXCEPT !.f = m.f,
                                               !.manager_raised = m.raised],
                                  task.primary_result)]

\* _primary_extraction: provider_manager.parse_document(priority="balanced")
StartPrimary(configured, cbs, ms, task, t) ==
  ManagerExit(Step(task, "primary"), "primary",
    ManagerLoop(configured,
      [cbs |-> cbs, ms |-> ms, f |-> NewFrame("balanced", <<>>)], t))

\* mutant: the secondary manager call excludes nobody
StartSecondary_noExclusion(configured, cbs, ms, task, t) ==
  ManagerExit(Step(task, "secondary"), "secondary",
    ManagerLoop(configured,
      [cbs |-> cbs, ms |-> ms, f |-> NewFrame("quality", <<>>)], t))

\* _validate_and_enhance from its try block on: the secondary manager call
\* with priority quality and the primary's provider excluded
StartSecondary(configured, cbs, ms, task, t) ==
  ManagerExit(Step(task, "secondary"), "secondary",
    ManagerLoop(configured,
      [cbs |-> cbs, ms |-> ms,
       f |-> NewFrame("quality", <<task.primary_result.provider>>)], t))

\* mutant: the secondary extraction starts whatever the escalation check
\* says
EscalationCheck_skipped(task) ==
  Returned(TRUE)

\* line 149: _needs_secondary_validation(primary_result)
EscalationCheck(task) ==
  NeedsSecondaryValidation(task.primary_result)

\* what parse_document does with the answer n of the escalation check
Escalate(configured, cbs, ms, task, n, t) ==
  IF n.raised # "none"
  THEN [cbs |-> cbs, ms |-> ms, task |-> Finish(task, n)]
  ELSE IF ~n.value
       THEN [cbs |-> cbs, ms |-> ms,
             task |-> PostProcess(task, task.primary_result)]
       ELSE StartSecondary(configured, cbs, ms, task, t)

\* parse_document after the primary result arrived: steps 3 and 4
AfterPrimary(configured, cbs, ms, task, t) ==
  Escalate(configured, cbs, ms, Step(task, "check"),
           EscalationCheck(task), t)

\* the result _validate_and_enhance returns once the merge has run
Merged(task, m) ==
  IF m.raised = "none" THEN m.value ELSE task.primary_result

\* _validate_and_enhance after the secondary result arrived, then step 4
AfterSecondary(task, secondary) ==
  PostProcess(Step([task EXCEPT !.secondary_result = secondary], "merge"),
    Merged(task, MergeExtractionResults(task.primary_result, secondary)))

\* The adapter call a parse is suspended in returns answer a: the breaker's
\* success branch, lines 564-571 of the manager, then the parser goes on.
OnAdapterReturn(configured, cbs, ms, task, a, t) ==
  LET p == task.f.provider_name
      result == ExtractionResult(a.data, a.conf, ProviderUsed(p),
                                 t - task.f.start_time)
      cbs1 == [cbs EXCEPT ![p] = CBOnSuccess(@)]
      ms1 == [ms EXCEPT ![p] =
                UpdateMetrics(@, TRUE, t - task.f.start_time,
                              AverageConfidence(result))]
      returned == SetAttr(result, "provider", p)
  IN  IF task.pc = "primary"
      THEN AfterPrimary(configured, cbs1, ms1,
                        [task EXCEPT !.primary_result = returned], t)
      ELSE [cbs |-> cbs1, ms |-> ms1, task |-> AfterSecondary(task, returned)]

\* The adapter call a parse is suspended in raises (a timeout included):
\* the breaker's except block, the manager's except block and its next
\* attempts.
OnAdapterRaise(configured, cbs, ms, task, t) ==
  ManagerExit(task, task.pc,
    ManagerExcept(configured,
      [cbs |-> [cbs EXCEPT ![task.f.provider_name] = CBOnFailure(@, t)],
       ms |-> ms, f |-> task.f], "Exception", t))

----------------------------------------------------------------------------
(* ConfidenceScorer (services/confidence_scorer.py).  The factor values and
   the provider's scores are in hundredths and the weights in hundredths, so
   a field's confidence is an exact number of 10^-4; the means are exact
   fractions [num, den] of 10^-4. *)

\* ConfidenceScorer.CRITICAL_FIELDS
CRITICAL_FIELDS ==
  {"client_company_name", "client_vat_number", "client_offered_price",
   "pickup_address", "delivery_address"}

\* the keys that occur in scored data, in the order of the adapters' JSON
ScoredFields ==
  <<"client_company_name", "client_vat_number", "client_offered_price",
    "pickup_address", "delivery_address", "special_requirements",
    "client_reference_number">>

\* word in field_name.lower(), for the words the scorer looks for; email,
\* cost, postcode and date occur in none of ScoredFields
NameHas(field_name, word) ==
  CASE word = "vat" -> field_name = "client_vat_number"
    [] word = "price" -> field_name = "client_offered_price"
    [] word = "address" -> field_name \in {"pickup_address", "delivery_address"}
    [] word = "company" -> field_name = "client_company_name"
    [] OTHER -> FALSE

\* the value None of an extracted field
PyNone == [kind |-> "none", chars |-> <<>>, cents |-> 0]

DigitSeq == <<"0", "1", "2", "3", "4", "5", "6", "7", "8", "9">>

UpperLetters == {"R", "O", "X", "Y", "N"}

Letters == UpperLetters \cup {"a", "b", "c", "x", "y", "o", "n", "e"}

\* str.strip()
RECURSIVE LStrip(_)
LStrip(s) ==
  IF s # <<>> /\ Head(s) = " " THEN LStrip(Tail(s)) ELSE s

RECURSIVE RStrip(_)
RStrip(s) ==
  IF s # <<>> /\ s[Len(s)] = " " THEN RStrip(SubSeq(s, 1, Len(s) - 1)) ELSE s

Strip(s) == RStrip(LStrip(s))

\* str(n) of a natural number
RECURSIVE RenderInt(_)
RenderInt(n) ==
  IF n < 10 THEN <<DigitSeq[n + 1]>>
  ELSE Append(RenderInt(n \div 10), DigitSeq[(n % 10) + 1])

\* str(value): None, a string, or a number (a whole number is an int)
StrOf(value) ==
  CASE value.kind = "none" -> <<"N", "o", "n", "e">>
    [] value.kind = "str" -> value.chars
    [] OTHER ->
         LET a == IF value.cents < 0 THEN 0 - value.cents ELSE value.cents
             frac == a % 100
         IN  (IF value.cents < 0 THEN <<"-">> ELSE <<>>)
             \o RenderInt(a \div 100)
             \o (IF frac = 0 THEN <<>>
                 ELSE <<".", DigitSeq[(frac \div 10) + 1]>>
                      \o (IF frac % 10 = 0 THEN <<>>
                          ELSE <<DigitSeq[(frac % 10) + 1]>>))

AllDigits(s) == \A i \in DOMAIN s : s[i] \in Digits

\* the value of a string of digits
RECURSIVE ToInt(_)
ToInt(s) ==
  IF s = <<>> THEN 0
  ELSE 10 * ToInt(SubSeq(s, 1, Len(s) - 1))
       + (CHOOSE k \in 0..9 : DigitSeq[k + 1] = s[Len(s)])

\* Decimal(str(value)), in cents: a number is its own value; of the strings
\* over Letters, digits and blanks, those of digits between blanks parse
\* and every other raises InvalidOperation
ParseDecimal(value) ==
  IF value.kind = "num" THEN [ok |-> TRUE, cents |-> value.cents]
  ELSE LET s == Strip(StrOf(value))
       IN  IF s # <<>> /\ AllDigits(s)
           THEN [ok |-> TRUE, cents |-> 100 * ToInt(s)]
           ELSE [ok |-> FALSE, cents |-> 0]

\* not value or value == ""
EmptyValue(value) ==
  \/ value.kind = "none"
  \/ value.kind = "str" /\ value.chars = <<>>
  \/ value.kind = "num" /\ value.cents = 0

\* re.match(r'^RO\d{8,10}$', s)
MatchRomanianVat(s) ==
  /\ Len(s) >= 10 /\ Len(s) <= 12
  /\ s[1] = "R" /\ s[2] = "O"
  /\ AllDigits(SubSeq(s, 3, Len(s)))

\* re.match(r'^[A-Z]{2}\d{8,12}$', s)
MatchEuVat(s) ==
  /\ Len(s) >= 10 /\ Len(s) <= 14
  /\ s[1] \in UpperLetters /\ s[2] \in UpperLetters
  /\ AllDigits(SubSeq(s, 3, Len(s)))

\* ConfidenceScorer._validate_field_format, the confidence it returns
ValidateFieldFormat(field_name, value) ==
  IF EmptyValue(value) THEN 0
  ELSE
    LET value_str == Strip(StrOf(value))
        price_val == ParseDecimal(value)
    IN  CASE NameHas(field_name, "vat") ->
               IF MatchRomanianVat(value_str) THEN 90
               ELSE IF MatchEuVat(value_str) THEN 85
               ELSE 30
          [] NameHas(field_name, "price") ->
               IF ~price_val.ok THEN 20
               ELSE IF price_val.cents > 0 THEN 90
               ELSE 40
          [] NameHas(field_name, "address") ->
               IF /\ Len(value_str) >= 10
                  /\ \E i \in DOMAIN value_str : value_str[i] \in Digits
               THEN 80 ELSE 50
          [] NameHas(field_name, "company") ->
               IF /\ Len(value_str) >= 3
                  /\ \E i \in DOMAIN value_str : value_str[i] \in Letters
               THEN 80 ELSE 40
          [] OTHER ->
               IF Len(value_str) >= 2 THEN 70 ELSE 30

\* ConfidenceScorer._validate_business_rules, the confidence it returns
ValidateBusinessRules(field_name, value) ==
  IF NameHas(field_name, "price")
  THEN LET price == ParseDecimal(value)
       IN  IF ~price.ok THEN 30
           ELSE IF 10000 <= price.cents /\ price.cents <= 5000000 THEN 90
           ELSE IF price.cents < 10000 THEN 60
           ELSE 50
  ELSE 70

\* ConfidenceScorer._validate_field_consistency, the confidence it returns
ValidateFieldConsistency(field_name, value, full_data) ==
  IF field_name = "client_vat_number"
     /\ "client_company_name" \in DOMAIN full_data
  THEN LET vat == Strip(StrOf(value))
           company == Strip(StrOf(full_data["client_company_name"]))
       IN  IF /\ Len(vat) >= 2 /\ vat[1] = "R" /\ vat[2] = "O"
              /\ Len(company) > 0
           THEN 80 ELSE 60
  ELSE 80

\* ConfidenceScorer._calculate_weighted_confidence on the four factors of
\* _score_field: min(1.0, weighted_sum / total_weight), the weights 0.3,
\* 0.35, 0.2 and 0.15 adding up to 1
CalculateWeightedConfidence(ai_provider, format_validation, business_rules, consistency) ==
  LET weighted_sum == 30 * ai_provider + 35 * format_validation
                      + 20 * business_rules + 15 * consistency
  IN  IF weighted_sum > 10000 THEN 10000 ELSE weighted_sum

\* ai_scores.get(field_name, 0.5) if ai_scores else 0.5; no map and the
\* empty map are <<>>
BaseConfidence(ai_scores, field_name) ==
  IF field_name \in DOMAIN ai_scores THEN ai_scores[field_name] ELSE 50

\* ConfidenceScorer._score_field
ScoreField(field_name, value, ai_scores, full_data) ==
  LET final_confidence ==
        CalculateWeightedConfidence(
          BaseConfidence(ai_scores, field_name),
          ValidateFieldFormat(field_name, value),
          ValidateBusinessRules(field_name, value),
          ValidateFieldConsistency(field_name, value, full_data))
  IN  [field_name |-> field_name, value |-> value,
       confidence |-> final_confidence,
       validation_passed |-> final_confidence >= 6000]

\* statistics.mean of the confidences of the fields in S, or the default
MeanOr(field_confidences, S, default) ==
  IF S = {} THEN [num |-> default, den |-> 1]
  ELSE [num |-> SumOver([f \in S |-> field_confidences[f].confidence], S),
        den |-> Cardinality(S)]

\* ConfidenceScorer._calculate_overall_confidence
CalculateOverallConfidence(field_confidences) ==
  IF DOMAIN field_confidences = {} THEN [num |-> 3000, den |-> 1]
  ELSE
    LET critical_avg ==
          MeanOr(field_confidences,
                 DOMAIN field_confidences \cap CRITICAL_FIELDS, 5000)
        non_critical_avg ==
          MeanOr(field_confidences,
                 DOMAIN field_confidences \ CRITICAL_FIELDS, 7000)
        num == 7 * critical_avg.num * non_critical_avg.den
               + 3 * non_critical_avg.num * critical_avg.den
        den == 10 * critical_avg.den * non_critical_avg.den
    IN  IF num > 10000 * den THEN [num |-> 10000, den |-> 1]
        ELSE [num |-> num, den |-> den]

\* ConfidenceScorer._calculate_critical_fields_confidence
CalculateCriticalFieldsConfidence(field_confidences) ==
  MeanOr(field_confidences,
         DOMAIN field_confidences \cap CRITICAL_FIELDS, 5000)

\* one entry of review_reasons: what it reports and the fields it names
Reason(kind, fields) == [kind |-> kind, fields |-> fields]

\* mutant: the critical fields are not looked at one by one
AssessManualReviewNeed_noFieldCheck(field_confidences, overall_confidence, critical_confidence) ==
  LET failed_validations ==
        SeqFilter(ScoredFields,
                  {f \in DOMAIN field_confidences \cap CRITICAL_FIELDS :
                     ~field_confidences[f].validation_passed})
      reasons ==
        (IF critical_confidence.num < 7000 * critical_confidence.den
         THEN <<Reason("critical_too_low", <<>>)>> ELSE <<>>)
        \o (IF overall_confidence.num < 6000 * overall_confidence.den
            THEN <<Reason("overall_too_low", <<>>)>> ELSE <<>>)
        \o (IF failed_validations # <<>>
            THEN <<Reason("failed_validation", failed_validations)>>
            ELSE <<>>)
  IN  [manual_review_required |-> Len(reasons) > 0, review_reasons |-> reasons]

\* ConfidenceScorer._assess_manual_review_need
AssessManualReviewNeed(field_confidences, overall_confidence, critical_confidence) ==
  LET very_low ==
        SeqFilter(ScoredFields,
                  {f \in DOMAIN field_confidences \cap CRITICAL_FIELDS :
                     field_confidences[f].confidence < 5000})
      failed_validations ==
        SeqFilter(ScoredFields,
                  {f \in DOMAIN field_confidences \cap CRITICAL_FIELDS :
                     ~field_confidences[f].validation_passed})
      reasons ==
        (IF critical_confidence.num < 7000 * critical_confidence.den
         THEN <<Reason("critical_too_low", <<>>)>> ELSE <<>>)
        \o (IF overall_confidence.num < 6000 * overall_confidence.den
            THEN <<Reason("overall_too_low", <<>>)>> ELSE <<>>)
        \o [i \in DOMAIN very_low |-> Reason("very_low", <<very_low[i]>>)]
        \o (IF failed_validations # <<>>
            THEN <<Reason("failed_validation", failed_validations)>>
            ELSE <<>>)
  IN  [manual_review_required |-> Len(reasons) > 0, review_reasons |-> reasons]

\* DocumentConfidence(...)
DocumentConfidence(overall, field_confidences, critical, review) ==
  [overall_confidence |-> overall, field_confidences |-> field_confidences,
   critical_fields_confidence |-> critical,
   manual_review_required |-> review.manual_review_required,
   review_reasons |-> review.review_reasons]

\* the try block of score_extraction once every field is scored
ScoredDocument(field_confidences) ==
  DocumentConfidence(
    CalculateOverallConfidence(field_confidences), field_confidences,
    CalculateCriticalFieldsConfidence(field_confidences),
    AssessManualReviewNeed(field_confidences,
      CalculateOverallConfidence(field_confidences),
      CalculateCriticalFieldsConfidence(field_confidences)))

\* ConfidenceScorer.score_extraction.  A score that is None makes the
\* weighted sum raise TypeError; the except block returns the low-confidence
\* document.
ScoreExtraction(extracted_data, ai_confidence_scores) ==
  IF \E f \in DOMAIN extracted_data :
       BaseConfidence(ai_confidence_scores, f) = None
  THEN DocumentConfidence([num |-> 3000, den |-> 1], <<>>,
         [num |-> 3000, den |-> 1],
         [manual_review_required |-> TRUE,
          review_reasons |-> <<Reason("scoring_failed", <<>>)>>])
  ELSE ScoredDocument(
         [f \in DOMAIN extracted_data |->
            ScoreField(f, extracted_data[f], ai_confidence_scores,
                       extracted_data)])

\* no call of score_extraction has been made
NoScoring ==
  [called |-> FALSE, extracted_data |-> <<>>, ai_confidence_scores |-> <<>>,
   result |-> ScoredDocument(<<>>)]

----------------------------------------------------------------------------
(* Earlier traffic: parses that one AIDocumentParser has already run, one
   after the other, before the concurrent parses of a run start.  A history
   is a sequence of parses, each the sequence of outcomes of its adapter
   calls; it is replayed through the operators above, so the state it
   leaves is a state the manager reaches from construction. *)

F == "raise"

S == "return"

\* fourteen parses that open the breaker of a lone provider
HistoryOne ==
  <<<<F>>, <<F>>, <<S>>, <<S>>, <<S>>, <<S>>, <<F>>,
    <<S>>, <<S>>, <<S>>, <<S>>, <<S>>, <<F>>, <<F>>>>

\* six parses that open the breakers of both providers
HistoryBoth ==
  <<<<F, S>>, <<F, F>>, <<F, F>>, <<F, S>>, <<F, F>>, <<F, F>>>>

\* four parses after which one more failed parse brings the success_rate
\* of a lone provider below 0.5 while its breaker is still Closed
HistoryLow ==
  <<<<F>>, <<F>>, <<S>>, <<S>>>>

Histories == {<<>>, HistoryOne, HistoryBoth, HistoryLow}

\* the answer the returning adapter calls of a history give
HistoryAnswer == CHOOSE a \in AdapterAnswers : \A f \in CriticalSet : a.conf[f] = 95

\* one parse of a history: w = [cbs, ms, task]; an outcome the parse no
\* longer waits for is not consumed
RECURSIVE ReplayParse(_, _, _, _)

\* w1 is w after the adapter call the parse waited for has ended
ReplayStep(configured, w, w1, outcomes, i) ==
  IF w1.task.pc = "idle" THEN w
  ELSE ReplayParse(configured, w1, outcomes, i + 1)

ReplayParse(configured, w, outcomes, i) ==
  IF i > Len(outcomes) \/ w.task.pc \notin {"primary", "secondary"} THEN w
  ELSE IF outcomes[i] = F
       THEN ReplayStep(configured, w,
              OnAdapterRaise(configured, w.cbs, w.ms, w.task, 0), outcomes, i)
       ELSE ReplayStep(configured, w,
              OnAdapterReturn(configured, w.cbs, w.ms, w.task,
                              HistoryAnswer, 0), outcomes, i)

\* the breakers and metrics after the parses of history h, run one after
\* the other at time 0
RECURSIVE Replay(_, _, _, _)

\* w is the manager and the parse after the first parse of h has ended
ReplayRest(configured, cbs, ms, w, h) ==
  IF w.task.pc = "idle" THEN [cbs |-> cbs, ms |-> ms]
  ELSE Replay(configured, w.cbs, w.ms, Tail(h))

Replay(configured, cbs, ms, h) ==
  IF h = <<>> THEN [cbs |-> cbs, ms |-> ms]
  ELSE ReplayRest(configured, cbs, ms,
         ReplayParse(configured,
           StartPrimary(configured, cbs, ms, IdleTask, 0), Head(h), 1), h)

----------------------------------------------------------------------------
(* Coroutines that call one breaker directly: await cb.call(func) *)

IdleCall == [pc |-> "idle", trial |-> FALSE, result |-> "none"]

Saturate(n) ==
  IF n >= failure_threshold THEN failure_threshold ELSE n

Event(op, c, pre) ==
  [op |-> op, caller |-> c, pre |-> pre, at |-> now]

InitCB ==
  /\ now = 0
  /\ circuit_breakers = [p \in Providers |-> NewCircuitBreaker]
  /\ calls = [c \in Callers |-> IdleCall]
  /\ consec = 0
  /\ last = [op |-> "init", caller |-> 0, pre |-> NewCircuitBreaker, at |-> 0]
  /\ scoring = NoScoring
  /\ providers = Providers
  /\ metrics = [p \in Providers |-> InitialMetrics(p)]
  /\ tasks = [d \in Docs |-> IdleTask]
  /\ parses = 0

\* time.time() moves on by one of the given amounts
TickBy(steps) ==
  \E d \in steps :
    /\ now + d <= MaxTime
    /\ now' = now + d
    /\ UNCHANGED <<circuit_breakers, harness, manager>>

Tick == TickBy(TickSteps)

\* A coroutine enters CircuitBreaker.call: it is rejected at once, or func
\* is invoked and the coroutine suspends in it.
CallEnter(c) ==
  /\ calls[c].pc = "idle"
  /\ LET pre == circuit_breakers[CBTarget]
         r == CBEnter(pre, now)
     IN  /\ circuit_breakers' = [circuit_breakers EXCEPT ![CBTarget] = r.cb]
         /\ IF r.raised = "none"
            THEN /\ calls' = [calls EXCEPT ![c] =
                       [pc |-> "in_func", trial |-> r.cb.state = HALF_OPEN,
                        result |-> "none"]]
                 /\ consec' = consec
                 /\ last' = Event("admit", c, pre)
            ELSE /\ calls' = [calls EXCEPT ![c] =
                       [pc |-> "idle", trial |-> FALSE, result |-> r.raised]]
                 /\ consec' = Saturate(consec + 1)
                 /\ last' = Event("reject", c, pre)
  /\ UNCHANGED <<now, manager, scoring>>

\* func returns a result
CallReturn(c) ==
  /\ calls[c].pc = "in_func"
  /\ LET pre == circuit_breakers[CBTarget]
     IN  /\ circuit_breakers' =
               [circuit_breakers EXCEPT ![CBTarget] = CBOnSuccess(pre)]
         /\ last' = Event("success", c, pre)
  /\ calls' = [calls EXCEPT ![c] =
        [pc |-> "idle", trial |-> FALSE, result |-> "ok"]]
  /\ consec' = 0
  /\ UNCHANGED <<now, manager, scoring>>

\* func raises an Exception (a timeout included)
CallRaise(c) ==
  /\ calls[c].pc = "in_func"
  /\ LET pre == circuit_breakers[CBTarget]
     IN  /\ circuit_breakers' =
               [circuit_breakers EXCEPT ![CBTarget] = CBOnFailure(pre, now)]
         /\ last' = Event("failure", c, pre)
  /\ calls' = [calls EXCEPT ![c] =
        [pc |-> "idle", trial |-> FALSE, result |-> "Exception"]]
  /\ consec' = Saturate(consec + 1)
  /\ UNCHANGED <<now, manager, scoring>>

\* The coroutine is cancelled while suspended in func: CancelledError is a
\* BaseException, so neither branch of CircuitBreaker.call runs.
CallCancel(c) ==
  /\ calls[c].pc = "in_func"
  /\ calls' = [calls EXCEPT ![c] =
        [pc |-> "idle", trial |-> FALSE, result |-> "CancelledError"]]
  /\ last' = Event("cancel", c, circuit_breakers[CBTarget])
  /\ UNCHANGED <<now, circuit_breakers, consec, manager, scoring>>

NextCB ==
  \/ Tick
  \/ \E c \in Callers : CallEnter(c)
  \/ \E c \in Callers : CallReturn(c)
  \/ \E c \in Callers : CallRaise(c)
  \/ \E c \in Callers : CallCancel(c)

SpecCB == InitCB /\ [][NextCB]_vars

----------------------------------------------------------------------------
(* Documents parsed by one AIDocumentParser, which owns one
   AIProviderManager: await parser.parse_document(pdf_path) *)

\* the breakers and metrics the run starts from
StartFrom(w) ==
  circuit_breakers = w.cbs /\ metrics = w.ms

\* AIProviderManager._initialize_providers: a provider is configured when
\* its API key is set.  The run starts with the manager as constructed, or
\* as one of the histories of earlier parses has left it.
Init ==
  /\ now = 0
  /\ providers \in SUBSET Providers
  /\ \E h \in Histories :
       StartFrom(Replay(providers,
                        [p \in Providers |-> NewCircuitBreaker],
                        [p \in Providers |-> InitialMetrics(p)], h))
  /\ tasks = [d \in Docs |-> IdleTask]
  /\ parses = 0
  /\ calls = [c \in Callers |-> IdleCall]
  /\ consec = 0
  /\ last = [op |-> "init", caller |-> 0, pre |-> NewCircuitBreaker, at |-> 0]
  /\ scoring = NoScoring

AllOpen ==
  /\ providers # {}
  /\ \A p \in providers : circuit_breakers[p].state = OPEN

Commit(d, r) ==
  /\ circuit_breakers' = r.cbs
  /\ metrics' = r.ms
  /\ tasks' = [tasks EXCEPT ![d] = r.task]

\* parse_document is called and suspends in pdf_processor.process
ParseBegin(d) ==
  /\ tasks[d].pc = "idle"
  /\ parses < MaxParses
  /\ parses' = parses + 1
  /\ tasks' = [tasks EXCEPT ![d] =
        [Step(IdleTask, "preprocess") EXCEPT
           !.pc = "preprocess", !.open_at_start = AllOpen]]
  /\ UNCHANGED <<now, circuit_breakers, providers, metrics, harness>>

\* preprocessing returned: the primary extraction starts (step 2)
PreprocessReturn(d) ==
  /\ tasks[d].pc = "preprocess"
  /\ Commit(d, StartPrimary(providers, circuit_breakers, metrics, tasks[d], now))
  /\ UNCHANGED <<now, providers, parses, harness>>

\* PDFProcessor.process raises ValueError (or anything else)
PreprocessRaise(d) ==
  /\ tasks[d].pc = "preprocess"
  /\ tasks' = [tasks EXCEPT ![d] = Finish(@, Raised("ValueError"))]
  /\ UNCHANGED <<now, circuit_breakers, providers, metrics, parses, harness>>

\* the adapter call in flight returns an ExtractionResult built from one of
\* the given answers
AdapterReturnOf(d, answers) ==
  /\ tasks[d].pc \in {"primary", "secondary"}
  /\ \E a \in answers :
       Commit(d, OnAdapterReturn(providers, circuit_breakers, metrics,
                                 tasks[d], a, now))
  /\ UNCHANGED <<now, providers, parses, harness>>

AdapterReturn(d) == AdapterReturnOf(d, AdapterAnswers)

\* the adapter call in flight raises
AdapterRaise(d) ==
  /\ tasks[d].pc \in {"primary", "secondary"}
  /\ Commit(d, OnAdapterRaise(providers, circuit_breakers, metrics,
                              tasks[d], now))
  /\ UNCHANGED <<now, providers, parses, harness>>

\* mutant: the except blocks catch the cancellation of an adapter call as
\* they catch its failure
Cancel_caught(d) ==
  /\ tasks[d].pc \in {"primary", "secondary"}
  /\ Commit(d, OnAdapterRaise(providers, circuit_breakers, metrics,
                              tasks[d], now))
  /\ UNCHANGED <<now, providers, parses, harness>>

\* The parse is cancelled at a suspension point: CancelledError is not an
\* Exception, so no except block on its way out runs.
Cancel(d) ==
  /\ tasks[d].pc \in {"preprocess", "primary", "secondary"}
  /\ tasks' = [tasks EXCEPT ![d] =
        [@ EXCEPT !.pc = "done",
                  !.outcome = Escaped("cancelled", "CancelledError")]]
  /\ UNCHANGED <<now, circuit_breakers, providers, metrics, parses, harness>>

\* the caller has taken the outcome
Collect(d) ==
  /\ tasks[d].pc = "done"
  /\ tasks' = [tasks EXCEPT ![d] = IdleTask]
  /\ UNCHANGED <<now, circuit_breakers, providers, metrics, parses, harness>>

\* time passes while the parses are suspended
Elapse == TickBy(Latencies)

Next ==
  \/ Elapse
  \/ \E d \in Docs : ParseBegin(d)
  \/ \E d \in Docs : PreprocessReturn(d)
  \/ \E d \in Docs : PreprocessRaise(d)
  \/ \E d \in Docs : AdapterReturn(d)
  \/ \E d \in Docs : AdapterRaise(d)
  \/ \E d \in Docs : Cancel(d)
  \/ \E d \in Docs : Collect(d)

Spec == Init /\ [][Next]_vars

----------------------------------------------------------------------------
(* The selection of _select_provider as a function of the metrics and the
   breakers: primary manager calls start on managers whose metrics are
   drawn from samples, and no adapter call ends. *)

\* ProviderMetrics of provider p: cost_per_request is never assigned after
\* _initialize_providers, the other fields are moving averages
MetricSamples(p) ==
  {[InitialMetrics(p) EXCEPT !.success_rate = sr, !.avg_response_time = rt,
                             !.avg_quality_score = q] :
     sr \in {Unit, 900000, 400000},
     rt \in {27 * Unit, 30 * Unit, 125 * Unit},
     q \in {850000, 900000}}

\* breakers as construction leaves them, or Open after failure_threshold
\* failures at time 0
BreakerSamples ==
  {NewCircuitBreaker,
   [state |-> OPEN, failure_count |-> failure_threshold,
    last_failure_time |-> 0]}

InitBalanced ==
  /\ now = 0
  /\ providers = Providers
  /\ circuit_breakers \in [Providers -> BreakerSamples]
  /\ \E m1 \in MetricSamples("openai"), m2 \in MetricSamples("claude") :
       metrics = [p \in Providers |-> IF p = "openai" THEN m1 ELSE m2]
  /\ tasks = [d \in Docs |-> IdleTask]
  /\ parses = 0
  /\ calls = [c \in Callers |-> IdleCall]
  /\ consec = 0
  /\ last = [op |-> "init", caller |-> 0, pre |-> NewCircuitBreaker, at |-> 0]
  /\ scoring = NoScoring

NextBalanced ==
  \/ \E d \in Docs : ParseBegin(d)
  \/ \E d \in Docs : PreprocessReturn(d)

SpecBalanced == InitBalanced /\ [][NextBalanced]_vars

----------------------------------------------------------------------------
(* Properties of CircuitBreaker.call, checked under SpecCB *)

breaker == circuit_breakers[CBTarget]

InFunc == {c \in Callers : calls[c].pc = "in_func"}

\* the last step was a call attempt arriving at the breaker
Attempted == last.op \in {"admit", "reject"}

\* seconds between the breaker's last failure and the last step
Elapsed == last.at - last.pre.last_failure_time

\* C1: once failure_threshold or more calls in a row have failed (no
\* successful call between them), the breaker is Open when the last of them
\* has failed.
C1_OpenAfterConsecutiveFailures ==
  (last.op \in {"failure", "reject"} /\ consec >= failure_threshold)
    => breaker.state = OPEN

C1_Witness ==
  /\ last.op = "failure"
  /\ last.pre.state = CLOSED
  /\ last.pre.failure_count = failure_threshold - 1
  /\ consec >= failure_threshold
  /\ breaker.state = OPEN

\* C2: after a call that succeeded while the breaker was Closed,
\* failure_count is 0 and the breaker is still Closed.
C2_SuccessResetsCount ==
  (last.op = "success" /\ last.pre.state = CLOSED)
    => (breaker.failure_count = 0 /\ breaker.state = CLOSED)

\* C3: a call attempt at an Open breaker whose recovery_timeout has not yet
\* elapsed is rejected with the breaker-open error, func is not invoked for
\* it, and the breaker is left as it was.
C3_OpenRejects ==
  (Attempted /\ last.pre.state = OPEN /\ Elapsed < recovery_timeout)
    => /\ last.op = "reject"
       /\ calls[last.caller].pc = "idle"
       /\ calls[last.caller].result = "CircuitBreakerOpenException"
       /\ breaker = last.pre

C3_Witness ==
  /\ last.op = "reject"
  /\ last.pre.state = OPEN
  /\ Elapsed > 0
  /\ Elapsed < recovery_timeout
  /\ calls[last.caller].result = "CircuitBreakerOpenException"

\* C4 as stated: a call attempt at an Open breaker with at least
\* recovery_timeout seconds elapsed (exactly recovery_timeout included) puts
\* the breaker in HalfOpen and invokes func.
C4_Original ==
  (Attempted /\ last.pre.state = OPEN /\ Elapsed >= recovery_timeout)
    => /\ last.op = "admit"
       /\ breaker.state = HALF_OPEN
       /\ calls[last.caller].pc = "in_func"

\* C4 as amended: a call attempt at an Open breaker with more than
\* recovery_timeout seconds elapsed since the last failure puts the breaker
\* in HalfOpen before func is invoked, and func is invoked; at exactly
\* recovery_timeout seconds the attempt is still rejected.
C4_HalfOpenAfterTimeout ==
  /\ (Attempted /\ last.pre.state = OPEN /\ Elapsed > recovery_timeout)
       => /\ last.op = "admit"
          /\ breaker.state = HALF_OPEN
          /\ calls[last.caller].pc = "in_func"
          /\ calls[last.caller].trial
  /\ (Attempted /\ last.pre.state = OPEN /\ Elapsed = recovery_timeout)
       => last.op = "reject"

C4_Witness ==
  /\ last.op = "admit"
  /\ last.pre.state = OPEN
  /\ Elapsed > recovery_timeout
  /\ breaker.state = HALF_OPEN
  /\ calls[last.caller].pc = "in_func"

\* C5: when a call succeeds while the breaker is HalfOpen, the breaker
\* becomes Closed and failure_count is 0.
C5_TrialSuccessCloses ==
  (last.op = "success" /\ last.pre.state = HALF_OPEN)
    => (breaker.state = CLOSED /\ breaker.failure_count = 0)

C5_Witness ==
  /\ last.op = "success"
  /\ last.pre.state = HALF_OPEN
  /\ last.pre.failure_count >= failure_threshold
  /\ breaker.state = CLOSED

\* C6: when a call fails while the breaker is HalfOpen, the breaker is Open
\* again and last_failure_time is the time of that failure; and a call is
\* let through an Open breaker only when more than recovery_timeout has
\* passed since the recorded failure.
C6_TrialFailureReopens ==
  /\ (last.op = "failure" /\ last.pre.state = HALF_OPEN)
       => (breaker.state = OPEN /\ breaker.last_failure_time = last.at)
  /\ (last.op = "admit" /\ last.pre.state = OPEN)
       => Elapsed > recovery_timeout

C6_Witness ==
  /\ last.op = "failure"
  /\ last.pre.state = HALF_OPEN
  /\ last.at > last.pre.last_failure_time
  /\ breaker.state = OPEN
  /\ breaker.last_failure_time = last.at

\* C7: at most one call admitted as a HalfOpen trial is inside func at a
\* time.
C7_SingleTrial ==
  Cardinality({c \in InFunc : calls[c].trial}) <= 1

----------------------------------------------------------------------------
(* Properties of AIDocumentParser.parse_document, checked under Spec *)

Done(d) == tasks[d].pc = "done" /\ tasks[d].outcome.kind # "cancelled"

\* the outcome _create_error_result builds for failure message e
IsErrorOutcome(o, e) ==
  /\ o.kind = "result"
  /\ o.extracted_data = <<>>
  /\ o.requires_manual_review
  /\ Len(o.validation_errors) = 1
  /\ o.validation_errors[1].text = "Parsing failed"
  /\ o.validation_errors[1].error = e

\* C8: a parse that was not cancelled ends with an outcome, never with an
\* exception; when a step of it raised, the outcome has empty extracted
\* data, requires_manual_review = true and one validation error carrying the
\* message of that exception.
C8_StructuredOutcome ==
  \A d \in Docs :
    Done(d) =>
      /\ tasks[d].outcome.kind = "result"
      /\ tasks[d].error # "none"
           => IsErrorOutcome(tasks[d].outcome, tasks[d].error)

C8_Witness ==
  \E d \in Docs :
    /\ Done(d)
    /\ tasks[d].error = "AllProvidersFailedException"
    /\ tasks[d].adapter_calls >= 2
    /\ IsErrorOutcome(tasks[d].outcome, "AllProvidersFailedException")

\* the primary result of scenario A: every critical field at 0.95, price
\* 1500, a well-formed VAT number
ScenarioA(r) ==
  /\ \A f \in CriticalSet : ConfGet(r, f) = 95
  /\ "client_offered_price" \in DOMAIN r.extracted_data
  /\ r.extracted_data["client_offered_price"] = Num(150000)
  /\ ValidateRomanianVatFormat(r.extracted_data["client_vat_number"])

\* C9: a parse whose primary result is that of scenario A makes no
\* secondary extraction and ends with requires_manual_review = false.
C9_ScenarioA ==
  \A d \in Docs :
    (Done(d) /\ ScenarioA(tasks[d].primary_result))
      => /\ tasks[d].f.priority # "quality"
         /\ ~tasks[d].outcome.requires_manual_review

\* C10: a parse called when the breaker of every configured provider is
\* Open never invokes an adapter, and ends with the error outcome, which has
\* requires_manual_review = true.
C10_AllOpen ==
  \A d \in Docs :
    tasks[d].open_at_start =>
      /\ tasks[d].adapter_calls = 0
      /\ tasks[d].pc \notin {"primary", "secondary"}
      /\ Done(d) => /\ tasks[d].error # "none"
                    /\ IsErrorOutcome(tasks[d].outcome, tasks[d].error)

C10_Witness ==
  \E d \in Docs :
    /\ Done(d)
    /\ tasks[d].open_at_start
    /\ providers = Providers
    /\ now >= 100
    /\ tasks[d].error = "UnboundLocalError"
    /\ tasks[d].outcome.requires_manual_review
    /\ tasks[d].adapter_calls = 0

----------------------------------------------------------------------------
(* Properties of AIProviderManager.parse_document, checked under Spec.  The
   manager calls are those the parser makes: the primary one with priority
   balanced and nothing excluded, the secondary one with priority quality
   and the primary's provider excluded. *)

\* the parses suspended in an adapter call
InFlight == {d \in Docs : tasks[d].pc \in {"primary", "secondary"}}

\* the latest manager call of parse d has left with an exception
ManagerRaised(d) == tasks[d].manager_raised # "none"

\* C11: a manager call that finds no eligible provider before it has made
\* any attempt fails with NoHealthyProviders.
C11_NoHealthyProviders ==
  \A d \in Docs :
    (ManagerRaised(d) /\ tasks[d].f.called = <<>>)
      => tasks[d].manager_raised = "NoHealthyProvidersException"

\* the exceptions a call through the breaker can end with
CallErrors == {"Exception", "CircuitBreakerOpenException", "TypeError"}

\* C12: a manager call whose attempts all failed leaves with
\* AllProvidersFailed once the retry ceiling is reached, and the error that
\* exception carries is the error of the last adapter or breaker call.
C12_CarriesLastCallError ==
  \A d \in Docs :
    tasks[d].manager_raised = "AllProvidersFailedException"
      => /\ tasks[d].f.attempts = max_retries
         /\ tasks[d].f.last_exception \in CallErrors

\* C13: one manager call invokes an adapter at most max_retries times, and
\* never the adapter of a provider it has invoked before.
C13_NoProviderTwice ==
  \A d \in Docs :
    LET called == tasks[d].f.called
    IN  /\ Len(called) <= max_retries
        /\ \A i, j \in DOMAIN called : i # j => called[i] # called[j]

C13_Witness ==
  \E d \in InFlight :
    /\ Len(tasks[d].f.called) = 2
    /\ tasks[d].f.attempts = 1
    /\ tasks[d].f.called[1] # tasks[d].f.called[2]

\* provider p is named in the exclude_provider argument of the manager call
\* with frame f
NamedInArgument(f, p) ==
  \E i \in DOMAIN f.exclude_arg : f.exclude_arg[i] = p

\* C14: a provider named in the exclude_provider argument of a manager call
\* is never selected by that call and its adapter is never invoked by it,
\* in the first attempt or in a retry.
C14_ExcludedNeverCalled ==
  \A d \in Docs :
    /\ ~NamedInArgument(tasks[d].f, tasks[d].f.provider_name)
    /\ \A i \in DOMAIN tasks[d].f.called :
         ~NamedInArgument(tasks[d].f, tasks[d].f.called[i])

\* a secondary call runs on the provider with the lower quality score,
\* the better one being excluded although it is healthy
C14_Witness ==
  \E d \in InFlight :
    /\ tasks[d].pc = "secondary"
    /\ tasks[d].f.exclude_arg # <<>>
    /\ tasks[d].f.called # <<>>
    /\ LET x == tasks[d].f.exclude_arg[1]
           p == tasks[d].f.provider_name
       IN  /\ x \in providers
           /\ circuit_breakers[x].state = CLOSED
           /\ 2 * metrics[x].success_rate >= Unit
           /\ metrics[x].avg_quality_score > metrics[p].avg_quality_score

\* C15: the provider of every adapter call had, when it was selected, a
\* breaker that was not Open and a success_rate of at least 0.5.
C15_SelectedHealthy ==
  \A d \in InFlight : tasks[d].f.selected_ok

\* an adapter call is in flight on a provider that passed the test while
\* the other configured provider, not excluded, is Open and passed over
C15_Witness ==
  \E d \in InFlight :
    /\ tasks[d].f.selected_ok
    /\ tasks[d].f.exclude_provider = <<>>
    /\ \E q \in providers \ {tasks[d].f.provider_name} :
         circuit_breakers[q].state = OPEN

\* the adapter calls on provider p that end in this step, by a return or
\* by an exception
Completing(p) ==
  {d \in InFlight :
     /\ tasks[d].f.provider_name = p
     /\ AdapterReturn(d) \/ AdapterRaise(d)}

\* C16: total_requests of a provider counts the adapter calls made on it:
\* every step adds to it exactly the number of calls on that provider
\* that end in the step, so no update happens without an attempt.
C16_TotalRequestsCountAttempts ==
  [][\A p \in Providers :
       metrics'[p].total_requests
         = metrics[p].total_requests + Cardinality(Completing(p))]_vars

\* the adapter calls on provider p that end in this step by an exception
Failing(p) ==
  {d \in InFlight : tasks[d].f.provider_name = p /\ AdapterRaise(d)}

\* the metrics updates this step makes for provider p: one for a call that
\* returns, and one for every pass through the except block of the retry
\* loop that a call that raises sets off
UpdatesOn(p) ==
  LET D == {d \in InFlight : tasks[d].f.provider_name = p}
      n == [d \in D |->
              IF AdapterReturn(d) THEN 1
              ELSE IF AdapterRaise(d)
                   THEN tasks'[d].f.attempts - tasks[d].f.attempts
                   ELSE 0]
  IN  SumOver(n, D)

C19_CancelChangesNothing ==
  [][/\ \A d \in Docs :
          Cancel(d) => /\ circuit_breakers' = circuit_breakers
                       /\ metrics' = metrics
     /\ (circuit_breakers' # circuit_breakers \/ metrics' # metrics)
          => \E d \in InFlight : AdapterReturn(d) \/ AdapterRaise(d)]_vars

\* a parse was cancelled while its adapter call was in flight, and the
\* provider of that call has the breaker and the metrics of construction
C19_Witness ==
  \E d \in Docs :
    /\ tasks[d].pc = "done"
    /\ tasks[d].outcome.kind = "cancelled"
    /\ tasks[d].f.called # <<>>
    /\ LET p == tasks[d].f.provider_name
       IN  /\ circuit_breakers[p] = NewCircuitBreaker
           /\ metrics[p] = InitialMetrics(p)

----------------------------------------------------------------------------
(* The balanced policy, checked under SpecBalanced *)

\* 1200 times 0.30 quality + 0.20 max(0, 1 - avg_response_time / 120)
\* + 0.20 max(0, 1 - cost_per_request / 0.20) + 0.30 success_rate, in units
Score1200(m) ==
  LET speed == IF m.avg_response_time >= 120 * Unit THEN 0
               ELSE 120 * Unit - m.avg_response_time
      cost == IF 5 * m.cost_per_request >= Unit THEN 0
              ELSE Unit - 5 * m.cost_per_request
  IN  360 * m.avg_quality_score + 2 * speed + 240 * cost
        + 360 * m.success_rate

\* the providers a call with nothing excluded may select
Eligible ==
  {q \in providers :
     circuit_breakers[q].state # OPEN /\ 2 * metrics[q].success_rate >= Unit}

\* position in the iteration order of self.providers
Position(p) == CHOOSE i \in DOMAIN ProviderOrder : ProviderOrder[i] = p

\* the first attempt of a primary (balanced) manager call is in flight
FirstBalanced ==
  {d \in InFlight : tasks[d].pc = "primary" /\ tasks[d].f.attempts = 0}

\* C17: the balanced policy selects an eligible provider of maximal
\* composite score, and of several with the maximal score the first in
\* iteration order.
C17_BalancedMaximum ==
  \A d \in FirstBalanced :
    LET sel == tasks[d].f.provider_name
    IN  /\ sel \in Eligible
        /\ \A q \in Eligible :
             /\ Score1200(metrics[sel]) >= Score1200(metrics[q])
             /\ Score1200(metrics[sel]) = Score1200(metrics[q])
                  => Position(sel) <= Position(q)

\* two eligible providers share the maximal score and the first is chosen
C17_Witness ==
  \E d \in FirstBalanced :
    /\ Eligible = Providers
    /\ Score1200(metrics["openai"]) = Score1200(metrics["claude"])
    /\ tasks[d].f.provider_name = "openai"

----------------------------------------------------------------------------
(* The order of the steps of AIDocumentParser.parse_document, checked under
   Spec *)

\* preprocess, primary extraction, escalation check, secondary extraction,
\* merge, then domain validation and final scoring (_post_process_result)
StepOrder ==
  <<"preprocess", "primary", "check", "secondary", "merge", "postprocess">>

Rank(step) == CHOOSE i \in DOMAIN StepOrder : StepOrder[i] = step

Started(d, step) == \E i \in DOMAIN tasks[d].trace : tasks[d].trace[i] = step

\* C20: the steps of a parse start in the order of StepOrder, each at most
\* once; the secondary manager call starts only after the primary call has
\* returned and the escalation check has answered true; the merge happens
\* only with a secondary call that has returned.
C20_StepOrder ==
  \A d \in Docs :
    LET trace == tasks[d].trace
    IN  /\ \A i, j \in DOMAIN trace :
             i < j => Rank(trace[i]) < Rank(trace[j])
        /\ Started(d, "secondary")
             => /\ Started(d, "primary") /\ Started(d, "check")
                /\ tasks[d].primary_result # NoResult
                /\ NeedsSecondaryValidation(tasks[d].primary_result)
                     = Returned(TRUE)
        /\ Started(d, "merge")
             => /\ Started(d, "secondary")
                /\ tasks[d].pc = "done"
                /\ tasks[d].outcome.kind # "cancelled"
                /\ tasks[d].f.priority = "quality"
                /\ tasks[d].f.called # <<>>
                /\ tasks[d].manager_raised = "none"

C20_Witness ==
  \E d \in Docs :
    /\ tasks[d].trace = StepOrder
    /\ tasks[d].pc = "done"
    /\ tasks[d].f.called # <<>>

----------------------------------------------------------------------------
(* The state of one CircuitBreaker under concurrent callers, checked under
   SpecCB *)

\* C29: in every reachable state, whatever the interleaving of the calls,
\* a Closed breaker has failure_count < failure_threshold, and an Open or
\* HalfOpen breaker has failure_count >= failure_threshold and a
\* last_failure_time that is set.
C29_BreakerInvariant ==
  \A p \in Providers :
    LET cb == circuit_breakers[p]
    IN  /\ cb.state \in {CLOSED, OPEN, HALF_OPEN}
        /\ cb.state = CLOSED => cb.failure_count < failure_threshold
        /\ cb.state \in {OPEN, HALF_OPEN}
             => /\ cb.failure_count >= failure_threshold
                /\ cb.last_failure_time # None

\* two calls are in flight at once on a breaker that has been Open, and a
\* third has already failed after the threshold was reached
C29_Witness ==
  /\ Cardinality(InFunc) = NumCallers
  /\ breaker.state = HALF_OPEN
  /\ breaker.failure_count > failure_threshold

----------------------------------------------------------------------------
(* The secondary extraction of AIDocumentParser._validate_and_enhance,
   checked under Spec *)

\* C22: the secondary manager call is made with priority quality and with
\* the provider of the primary result as its exclude_provider argument, and
\* no adapter call of it, the retries after a failure included, goes to the
\* provider that produced the primary result.
C22_SecondaryExcludesPrimary ==
  \A d \in Docs :
    Started(d, "secondary")
      => /\ HasAttr(tasks[d].primary_result, "provider")
         /\ tasks[d].f.priority = "quality"
         /\ tasks[d].f.exclude_arg = <<tasks[d].primary_result.provider>>
         /\ \A i \in DOMAIN tasks[d].f.called :
              tasks[d].f.called[i] # tasks[d].primary_result.provider

\* the secondary call went to the other provider, failed there, and the
\* manager has run its further attempts
C22_Witness ==
  \E d \in Docs :
    /\ Started(d, "secondary")
    /\ tasks[d].f.called # <<>>
    /\ tasks[d].f.attempts = max_retries
    /\ tasks[d].manager_raised = "AllProvidersFailedException"

\* C23: when the escalation fired and the secondary manager call raised, the
\* parse goes on with the primary result alone: its outcome is not the error
\* outcome, the outcome's extracted data is the primary's data and its
\* provider is the primary's provider.
C23_SecondaryFailureKeepsPrimary ==
  \A d \in Docs :
    (/\ Done(d)
     /\ Started(d, "secondary")
     /\ tasks[d].manager_raised # "none")
      => /\ ~IsErrorOutcome(tasks[d].outcome, tasks[d].error)
         /\ tasks[d].outcome.extracted_data
              = tasks[d].primary_result.extracted_data
         /\ tasks[d].outcome.provider_used
              = tasks[d].primary_result.provider_used

\* C25: in every outcome parse_document returns, a non-empty list of
\* validation errors comes with requires_manual_review = true.
C25_ErrorsForceReview ==
  \A d \in Docs :
    (Done(d) /\ tasks[d].outcome.validation_errors # <<>>)
      => tasks[d].outcome.requires_manual_review

\* two parses have returned outcomes with validation errors, one whose
\* primary extraction had succeeded and one whose manager call raised
C25_Witness ==
  \E d, e \in Docs :
    /\ Done(d) /\ Done(e)
    /\ tasks[d].outcome.validation_errors # <<>>
    /\ tasks[e].outcome.validation_errors # <<>>
    /\ Started(d, "postprocess")
    /\ tasks[e].manager_raised # "none" /\ ~Started(e, "check")

----------------------------------------------------------------------------
(* The escalation check and the merge of AIDocumentParser as functions of
   the ExtractionResults the manager returns: parses on a manager as
   constructed, whose adapter calls return results drawn from samples
   around the thresholds of _needs_secondary_validation and
   _detect_data_anomalies. *)

\* fields of extracted_data beyond the critical ones
ExtraFields == {"client_reference_number", "special_requirements"}

WithPrice(cents) ==
  [GoodData EXCEPT !["client_offered_price"] = Num(cents)]

\* the critical fields and two more
FullData ==
  [f \in CriticalSet \cup ExtraFields |->
     IF f \in CriticalSet THEN GoodData[f] ELSE Str(<<"x", "y">>)]

\* the company name is empty; with two missing, the delivery address is
\* absent as well
MissingOne ==
  [GoodData EXCEPT !["client_company_name"] = Str(<<>>)]

MissingTwo ==
  [f \in CriticalSet \ {"delivery_address"} |-> MissingOne[f]]

\* a VAT number without a digit
BadVat ==
  [GoodData EXCEPT !["client_vat_number"] = Str(<<"R", "O">>)]

AllAt(fields, c) == [f \in fields |-> c]

\* Prices 99.99, 100, 1500, 50000 and 50000.01 at confidence 0.95; every
\* critical field at 0.85 with one of them at 0.84 or 0.85; critical fields
\* at 0.85 with two further fields that bring the average to 0.80 or just
\* below (for these values the float average of the code is exactly 0.8,
\* respectively below it); one and two critical fields missing; a malformed
\* VAT number.
AnswerSamples ==
  {[data |-> WithPrice(c), conf |-> AllAt(CriticalSet, 95)] :
     c \in {9999, 10000, 150000, 5000000, 5000001}}
  \cup {[data |-> GoodData,
         conf |-> [AllAt(CriticalSet, 85) EXCEPT !["pickup_address"] = c]] :
          c \in {84, 85}}
  \cup {[data |-> FullData,
         conf |-> [f \in CriticalSet \cup ExtraFields |->
                     CASE f \in CriticalSet -> 85
                       [] f = "client_reference_number" -> 65
                       [] OTHER -> c]] : c \in {69, 70}}
  \cup {[data |-> d, conf |-> AllAt(CriticalSet, 95)] :
          d \in {MissingOne, MissingTwo, BadVat}}

\* the adapter call in flight returns one of the samples
AdapterSample(d) == AdapterReturnOf(d, AnswerSamples)

NextEscalation ==
  \/ \E d \in Docs : ParseBegin(d)
  \/ \E d \in Docs : PreprocessReturn(d)
  \/ \E d \in Docs : AdapterSample(d)
  \/ \E d \in Docs : Collect(d)

SpecEscalation == InitCB /\ [][NextEscalation]_vars

\* the three conditions of escalation, on a result as the manager returns it
LowCritical(r) == \E f \in CriticalSet : ConfGet(r, f) < confidence_threshold

LowOverall(r) == AverageBelow(r, 80)

Anomalous(r) == AnomaliesIn(r.extracted_data)

\* C21: once the escalation check of a parse has run, the secondary
\* extraction has been started if and only if the primary result has a
\* critical field with confidence < 0.85, or average confidence < 0.80, or
\* an anomaly (price outside [100, 50000], two or more critical fields
\* missing, malformed VAT number).
C21_EscalationIff ==
  \A d \in Docs :
    Started(d, "check")
      => (Started(d, "secondary")
            <=> (\/ LowCritical(tasks[d].primary_result)
                 \/ LowOverall(tasks[d].primary_result)
                 \/ Anomalous(tasks[d].primary_result)))

\* the fields of the extracted data of a result
FieldsOf(r) == DOMAIN r.extracted_data

\* C24: when the merge step of a parse has run, the result handed on has
\* every field of the primary and of the secondary result and no other;
\* a field of both has the secondary's value if the secondary's confidence
\* for it is strictly higher and the primary's value otherwise; a field of
\* one result only has that result's value.
C24_MergeUnion ==
  \A d \in Docs :
    Started(d, "merge")
      => LET p == tasks[d].primary_result
             s == tasks[d].secondary_result
             m == tasks[d].final_result
         IN  /\ FieldsOf(m) = FieldsOf(p) \cup FieldsOf(s)
             /\ \A f \in FieldsOf(m) \cap FieldsOf(p) \cap FieldsOf(s) :
                  m.extracted_data[f] =
                    IF ConfGet(s, f) > ConfGet(p, f)
                    THEN s.extracted_data[f] ELSE p.extracted_data[f]
             /\ \A f \in FieldsOf(m) \cap (FieldsOf(p) \ FieldsOf(s)) :
                  m.extracted_data[f] = p.extracted_data[f]
             /\ \A f \in FieldsOf(m) \cap (FieldsOf(s) \ FieldsOf(p)) :
                  m.extracted_data[f] = s.extracted_data[f]

----------------------------------------------------------------------------
(* Providers whose success_rate has fallen below 0.5, checked under Spec *)

\* the parses whose adapter call on provider p is in flight
CallsOn(p) == {d \in InFlight : tasks[d].f.provider_name = p}

\* parse d has an adapter call in flight after the step that it did not
\* have, or had on another provider, before it
NewCall(d, p) ==
  /\ tasks'[d].pc \in {"primary", "secondary"}
  /\ tasks'[d].f.provider_name = p
  /\ tasks'[d].f.called # tasks[d].f.called

\* C30 as stated: a success_rate that is below 0.5 is below 0.5 after every
\* step.
C30_Original ==
  [][\A p \in Providers :
       LowSuccessRate(metrics[p]) => LowSuccessRate(metrics'[p])]_vars

\* C30: no adapter call starts on a provider whose success_rate is below
\* 0.5, and such a success_rate stays below 0.5 in every step but the return
\* of an adapter call on that provider that was already in flight.
C30_LowRateNotSelected ==
  [][\A p \in Providers :
       LowSuccessRate(metrics[p])
         => /\ \A d \in Docs : ~NewCall(d, p)
            /\ LowSuccessRate(metrics'[p])
                 \/ \E d \in CallsOn(p) : AdapterReturn(d)]_vars

\* the success_rate of the lone provider is below 0.5 with its breaker
\* Closed, no call on it is in flight, and a parse begun since has found no
\* provider to select
C30_Witness ==
  \E p \in Providers, d \in Docs :
    /\ providers = {p}
    /\ LowSuccessRate(metrics[p])
    /\ circuit_breakers[p].state = CLOSED
    /\ CallsOn(p) = {}
    /\ tasks[d].pc = "done"
    /\ tasks[d].manager_raised = "UnboundLocalError"

----------------------------------------------------------------------------
(* Recovery of an Open breaker through the manager: parses that keep
   arriving at a manager whose configured providers all have an Open
   breaker, while time passes. *)

\* parse_document is called once more.  The calls on a manager whose
\* providers are all Open are not counted: each leaves the manager as it
\* found it, and they go on for ever.
ParseAgain(d) ==
  /\ tasks[d].pc = "idle"
  /\ tasks' = [tasks EXCEPT ![d] =
        [Step(IdleTask, "preprocess") EXCEPT
           !.pc = "preprocess", !.open_at_start = AllOpen]]
  /\ UNCHANGED <<now, circuit_breakers, providers, metrics, parses, harness>>

\* the manager as the histories that open every configured breaker leave it
InitRecovery == Init /\ AllOpen

NextRecovery ==
  \/ Elapse
  \/ \E d \in Docs : ParseAgain(d)
  \/ \E d \in Docs : PreprocessReturn(d)
  \/ \E d \in Docs : PreprocessRaise(d)
  \/ \E d \in Docs : Cancel(d)
  \/ \E d \in Docs : Collect(d)

\* Time passes, callers keep calling parse_document, preprocessing returns
\* and outcomes are taken.
SpecRecovery ==
  /\ InitRecovery
  /\ [][NextRecovery]_vars
  /\ WF_vars(Elapse)
  /\ \A d \in Docs :
       /\ WF_vars(ParseAgain(d))
       /\ WF_vars(PreprocessReturn(d))
       /\ WF_vars(Collect(d))

\* the breaker of configured provider p is Open and more than
\* recovery_timeout seconds have passed since its last failure
Recoverable(p) ==
  /\ p \in providers
  /\ circuit_breakers[p].state = OPEN
  /\ RecoveryElapsed(circuit_breakers[p], now)

\* C28: a configured provider whose breaker is Open and whose
\* recovery_timeout has elapsed is, while parse_document keeps being
\* called, eventually attempted again: its breaker reaches HalfOpen.
C28_RecoveryThroughManager ==
  \A p \in Providers :
    Recoverable(p) ~> (circuit_breakers[p].state = HALF_OPEN)

----------------------------------------------------------------------------
(* ConfidenceScorer.score_extraction as a function of its inputs: calls on
   extracted data and provider scores drawn from samples. *)

VatSamples ==
  {Str(<<"R", "O", "1", "2", "3", "4", "5", "6", "7", "8">>),
   Str(<<"X", "Y", "1", "2", "3", "4", "5", "6", "7", "8">>),
   Str(<<"R", "O", "1", "2">>), Str(<<>>), PyNone}

PriceSamples ==
  {Num(150000), Num(9999), Num(5000001), Num(0), Num(0 - 50000),
   Str(<<"1", "5", "0", "0">>), Str(<<"a", "b", "c">>)}

AddressSamples ==
  {Str(<<"a", "b", "c", " ", "x", "y", " ", "1", "2", "a">>),
   Str(<<" ", "a", "b", "c", " ">>), Str(<<>>)}

\* the seven fields with the given VAT number, price and pickup address
SampleData(vat, price, pickup) ==
  [f \in {ScoredFields[i] : i \in DOMAIN ScoredFields} |->
     CASE f = "client_vat_number" -> vat
       [] f = "client_offered_price" -> price
       [] f = "pickup_address" -> pickup
       [] f = "delivery_address" ->
            Str(<<"a", "b", "c", " ", "x", "y", " ", "1", "2", "a">>)
       [] f = "client_company_name" -> Str(<<"a", "b", "c">>)
       [] f = "client_reference_number" -> Str(<<"7">>)
       [] OTHER -> Str(<<"x", "y">>)]

\* extracted data with all seven fields, with the critical fields only,
\* without the company name, with the two other fields only, or empty
KeySets ==
  {{ScoredFields[i] : i \in DOMAIN ScoredFields},
   CRITICAL_FIELDS,
   CRITICAL_FIELDS \ {"client_company_name"},
   {"special_requirements", "client_reference_number"},
   {}}

ScorerData ==
  {[f \in keys |-> SampleData(vat, price, pickup)[f]] :
     vat \in VatSamples, price \in PriceSamples, pickup \in AddressSamples,
     keys \in KeySets}

\* no provider scores; every field at 0, 0.5, 0.95, 1, -1 or 2.5; every
\* field at 1 but the VAT number at 0; a VAT score that is None
ScorerAiScores ==
  {<<>>}
  \cup {[f \in {ScoredFields[i] : i \in DOMAIN ScoredFields} |-> c] :
          c \in {0, 50, 95, 100, 0 - 100, 250}}
  \cup {[f \in {ScoredFields[i] : i \in DOMAIN ScoredFields} |->
           IF f = "client_vat_number" THEN 0 ELSE 100]}
  \cup {[f \in {"client_vat_number"} |-> None]}

\* await confidence_scorer.score_extraction(extracted_data, scores); the
\* scorer keeps nothing from one call to the next, so a behaviour has one
ScoreCall ==
  /\ ~scoring.called
  /\ \E data \in ScorerData, ai \in ScorerAiScores :
       scoring' = [called |-> TRUE, extracted_data |-> data,
                   ai_confidence_scores |-> ai,
                   result |-> ScoreExtraction(data, ai)]
  /\ UNCHANGED <<now, circuit_breakers, calls, consec, last, manager>>

NextScorer == ScoreCall

SpecScorer == InitCB /\ [][NextScorer]_vars

\* a fraction of 10^-4 lies in [0.0, 1.0]
InUnit(q) == 0 <= q.num /\ q.num <= 10000 * q.den

\* C26: whatever the extracted data and the provider's scores, every
\* FieldConfidence.confidence and the overall_confidence that
\* score_extraction returns lie in [0.0, 1.0].
C26_ConfidenceBounds ==
  scoring.called
    => /\ \A f \in DOMAIN scoring.result.field_confidences :
            /\ 0 <= scoring.result.field_confidences[f].confidence
            /\ scoring.result.field_confidences[f].confidence <= 10000
       /\ InUnit(scoring.result.overall_confidence)

\* C27: when a critical field of the returned document has a confidence
\* below 0.5, manual_review_required is true and review_reasons has an
\* entry that names the field.
C27_VeryLowCriticalField ==
  scoring.called
    => \A f \in DOMAIN scoring.result.field_confidences \cap CRITICAL_FIELDS :
         scoring.result.field_confidences[f].confidence < 5000
           => /\ scoring.result.manual_review_required
              /\ \E i \in DOMAIN scoring.result.review_reasons :
                   /\ scoring.result.review_reasons[i].kind = "very_low"
                   /\ scoring.result.review_reasons[i].fields = <<f>>

\* one critical field is below 0.5 while the critical and the overall
\* confidence are above their thresholds
C27_Witness ==
  /\ scoring.called
  /\ \E f \in DOMAIN scoring.result.field_confidences \cap CRITICAL_FIELDS :
       scoring.result.field_confidences[f].confidence < 5000
  /\ scoring.result.critical_fields_confidence.num
       >= 7000 * scoring.result.critical_fields_confidence.den
  /\ scoring.result.overall_confidence.num
       >= 6000 * scoring.result.overall_confidence.den

====
